---- MODULE Spec2Model ----
(***************************************************************************)
(* Real-time translator: the speech segment buffer (useSpeechRecognition), *)
(* the retrying request client (fetchWithRetry), the translation task      *)
(* runner (translateAndSpeak) and the ordered playback scheduler           *)
(* (playNext).                                                             *)
(*                                                                         *)
(* Strings are sequences of one-character strings so that trim and         *)
(* concatenation are computed as the JavaScript code computes them.        *)
(***************************************************************************)
EXTENDS Integers, Sequences, FiniteSets, TLC

(***************************************************************************)
(* Bounds of the model                                                     *)
(***************************************************************************)
MaxSeq == 2       \* segments emitted in one behaviour
MaxResults == 1   \* results of one recognition event, all combinations
MaxRecs == 2      \* recognition objects alive at once (current + stale)
MaxRetries == 5   \* largest retries argument given to fetchWithRetry
MaxPlaySeq == 6   \* largest sequence number of a translation result
MaxEnqueued == 3  \* results handed to the playback scheduler

(***************************************************************************)
(* Text                                                                    *)
(***************************************************************************)
SP == " "

Hel == <<"h", "e", "l">>
HelloThere == <<"h", "e", "l", "l", "o", " ", "t", "h", "e", "r", "e">>
HelloThereDot == HelloThere \o <<".">>
Blank == <<" ">>
Tiny == <<"a">>

\* transcripts combined freely into recognition events
Transcripts == {Hel, Blank}

RECURSIVE TrimStart(_)
TrimStart(s) ==
    IF s = <<>> THEN <<>>
    ELSE IF Head(s) = SP THEN TrimStart(Tail(s)) ELSE s

RECURSIVE TrimEnd(_)
TrimEnd(s) ==
    IF s = <<>> THEN <<>>
    ELSE IF s[Len(s)] = SP THEN TrimEnd(SubSeq(s, 1, Len(s) - 1)) ELSE s

\* String.prototype.trim
Trim(s) == TrimEnd(TrimStart(s))

(***************************************************************************)
(* Recognition events: event.results[event.resultIndex ..]                 *)
(***************************************************************************)
Result == [transcript : Transcripts, isFinal : BOOLEAN]

\* events with one final result
FinalEvents == {<<[transcript |-> t, isFinal |-> TRUE]>> : t \in {Hel, HelloThereDot, Tiny}}

\* further events: a longer interim hypothesis and its final form, a
\* one-letter final fragment,
\* and events that carry a final and an interim result together
ExtraEvents ==
    { <<[transcript |-> HelloThere, isFinal |-> FALSE]>>,
      <<[transcript |-> HelloThereDot, isFinal |-> TRUE]>>,
      <<[transcript |-> Tiny, isFinal |-> TRUE]>>,
      <<[transcript |-> HelloThereDot, isFinal |-> TRUE],
        [transcript |-> Hel, isFinal |-> FALSE]>>,
      <<[transcript |-> Hel, isFinal |-> FALSE],
        [transcript |-> HelloThere, isFinal |-> TRUE]>> }

Events == ExtraEvents \cup UNION {[1..n -> Result] : n \in 1..MaxResults}

\* the loop of onresult that builds finalTranscript / interimTranscript
RECURSIVE BuildTranscript(_, _)
BuildTranscript(ev, final) ==
    IF ev = <<>> THEN <<>>
    ELSE (IF Head(ev).isFinal = final THEN Head(ev).transcript \o <<SP>> ELSE <<>>)
         \o BuildTranscript(Tail(ev), final)

(***************************************************************************)
(* State of the hook useSpeechRecognition                                  *)
(***************************************************************************)
VARIABLES
    call,               \* one invocation of fetchWithRetry on its own
    tasks,              \* invocations of translateAndSpeak, in call order,
                        \* each with the log entries it made
    presented,          \* translations shown to the user, in order of display
    playbackQueue,      \* playbackQueueRef.current
    isPlaying,          \* isPlayingRef.current
    sink,               \* Audio elements created and not yet ended or failed
    released,           \* sequence numbers released to the sink, in order
    enqueued,           \* sequence numbers ever pushed on the queue
    timeouts,           \* pending setTimeout(() => playNext()) callbacks
    lastPlay,           \* what the last handler of the scheduler did
    isListening,        \* React state of App
    isListeningRef,     \* isListeningRef.current
    committed,          \* committedRef.current
    pendingInterim,     \* pendingInterimRef.current
    lastSent,           \* lastSentRef.current
    seq,                \* seqRef.current
    chunkTimer,         \* a pause timeout is pending
    streamingInterval,  \* the streaming interval is armed
    recs,               \* status of every recognition object; recs[1] is
                        \* recognitionRef.current, the others are stale objects
    calls,              \* sequence numbers passed to onFinalTranscript, in call order
    last,               \* what the last handler did
    scn,                \* progress of the "hello there." scenario
    resumed,            \* toggleListening switched listening on since the
                        \* last flush of a non-empty buffer
    stopped,            \* the user clicked Stop while listening was on, and
                        \* listening has not been started since
    orphanTimers,       \* pause timeouts pending that chunkTimerRef no longer
                        \* refers to
    burst               \* since the last recognition event: the handlers other
                        \* than onresult that called flushBuffer (2: two or
                        \* more) and the calls of onFinalTranscript they made

bufVars == <<isListening, isListeningRef, committed, pendingInterim, lastSent,
             seq, chunkTimer, streamingInterval, recs, calls, last, scn,
             resumed, stopped, orphanTimers, burst>>

RecIds == 1..MaxRecs
Cur == 1   \* the slot of recognitionRef.current
\* "aborting": stopped before it had started, "stopping": stopped while
\* running, "failed": a 'no-speech' error was raised, "fatal": another error
\* was raised; in all four the object has still to signal its end
RecStatus == {"idle", "starting", "running", "aborting", "stopping", "failed",
              "fatal"}

\* clearChunkTimer (lines 38-43): ct is whether chunkTimerRef holds a pending
\* timeout; and a variant that leaves the timeout pending
clearChunkTimerNoop(ct) == ct

clearChunkTimer(ct) == FALSE

NoFlush == [kind |-> "none", text |-> <<>>, log |-> <<>>]

(***************************************************************************)
(* flushBuffer, as a function of the refs it reads.  kind is the branch    *)
(* taken: "empty", "dup" or "emit"; text is the composed text; log lists   *)
(* the types of the addLog calls it makes.                                 *)
(***************************************************************************)
\* variants of flushBuffer with one slip each
flushBufferReuseSeq(c, p, ls, s) ==
    LET text == Trim(c \o <<SP>> \o p) IN
    IF text = <<>>
    THEN [committed |-> <<>>, pendingInterim |-> <<>>, lastSent |-> ls,
          seq |-> s, kind |-> "empty", text |-> text, log |-> <<>>]
    ELSE IF ls # <<>> /\ ls = text
    THEN [committed |-> <<>>, pendingInterim |-> <<>>, lastSent |-> text,
          seq |-> s, kind |-> "dup", text |-> text, log |-> <<>>]
    ELSE [committed |-> <<>>, pendingInterim |-> <<>>, lastSent |-> text,
          seq |-> s, kind |-> "emit", text |-> text, log |-> <<"input">>]

flushBufferDupAdvances(c, p, ls, s) ==
    LET text == Trim(c \o <<SP>> \o p) IN
    IF text = <<>>
    THEN [committed |-> <<>>, pendingInterim |-> <<>>, lastSent |-> ls,
          seq |-> s, kind |-> "empty", text |-> text, log |-> <<>>]
    ELSE IF ls # <<>> /\ ls = text
    THEN [committed |-> <<>>, pendingInterim |-> <<>>, lastSent |-> text,
          seq |-> s + 1, kind |-> "dup", text |-> text, log |-> <<>>]
    ELSE [committed |-> <<>>, pendingInterim |-> <<>>, lastSent |-> text,
          seq |-> s + 1, kind |-> "emit", text |-> text, log |-> <<"input">>]

flushBufferCountsEmpty(c, p, ls, s) ==
    LET text == Trim(c \o <<SP>> \o p) IN
    IF text = <<>>
    THEN [committed |-> <<>>, pendingInterim |-> <<>>, lastSent |-> ls,
          seq |-> s + 1, kind |-> "empty", text |-> text, log |-> <<>>]
    ELSE IF ls # <<>> /\ ls = text
    THEN [committed |-> <<>>, pendingInterim |-> <<>>, lastSent |-> text,
          seq |-> s, kind |-> "dup", text |-> text, log |-> <<>>]
    ELSE [committed |-> <<>>, pendingInterim |-> <<>>, lastSent |-> text,
          seq |-> s + 1, kind |-> "emit", text |-> text, log |-> <<"input">>]

flushBufferNoDedup(c, p, ls, s) ==
    LET text == Trim(c \o <<SP>> \o p) IN
    IF text = <<>>
    THEN [committed |-> <<>>, pendingInterim |-> <<>>, lastSent |-> ls,
          seq |-> s, kind |-> "empty", text |-> text, log |-> <<>>]
    ELSE [committed |-> <<>>, pendingInterim |-> <<>>, lastSent |-> text,
          seq |-> s + 1, kind |-> "emit", text |-> text, log |-> <<"input">>]

flushBufferKeepsBuffer(c, p, ls, s) ==
    LET text == Trim(c \o <<SP>> \o p) IN
    IF text = <<>>
    THEN [committed |-> <<>>, pendingInterim |-> <<>>, lastSent |-> ls,
          seq |-> s, kind |-> "empty", text |-> text, log |-> <<>>]
    ELSE IF ls # <<>> /\ ls = text
    THEN [committed |-> <<>>, pendingInterim |-> <<>>, lastSent |-> text,
          seq |-> s, kind |-> "dup", text |-> text, log |-> <<>>]
    ELSE [committed |-> c, pendingInterim |-> p, lastSent |-> text,
          seq |-> s + 1, kind |-> "emit", text |-> text, log |-> <<"input">>]

flushBufferDupKeeps(c, p, ls, s) ==
    LET text == Trim(c \o <<SP>> \o p) IN
    IF text = <<>>
    THEN [committed |-> <<>>, pendingInterim |-> <<>>, lastSent |-> ls,
          seq |-> s, kind |-> "empty", text |-> text, log |-> <<>>]
    ELSE IF ls # <<>> /\ ls = text
    THEN [committed |-> c, pendingInterim |-> p, lastSent |-> text,
          seq |-> s, kind |-> "dup", text |-> text, log |-> <<>>]
    ELSE [committed |-> <<>>, pendingInterim |-> <<>>, lastSent |-> text,
          seq |-> s + 1, kind |-> "emit", text |-> text, log |-> <<"input">>]

flushBufferKeepsCommitted(c, p, ls, s) ==
    LET text == Trim(c \o <<SP>> \o p) IN
    IF text = <<>>
    THEN [committed |-> <<>>, pendingInterim |-> <<>>, lastSent |-> ls,
          seq |-> s, kind |-> "empty", text |-> text, log |-> <<>>]
    ELSE IF ls # <<>> /\ ls = text
    THEN [committed |-> <<>>, pendingInterim |-> <<>>, lastSent |-> text,
          seq |-> s, kind |-> "dup", text |-> text, log |-> <<>>]
    ELSE [committed |-> c, pendingInterim |-> <<>>, lastSent |-> text,
          seq |-> s + 1, kind |-> "emit", text |-> text, log |-> <<"input">>]

flushBufferForgetsSent(c, p, ls, s) ==
    LET text == Trim(c \o <<SP>> \o p) IN
    IF text = <<>>
    THEN [committed |-> <<>>, pendingInterim |-> <<>>, lastSent |-> ls,
          seq |-> s, kind |-> "empty", text |-> text, log |-> <<>>]
    ELSE IF ls # <<>> /\ ls = text
    THEN [committed |-> <<>>, pendingInterim |-> <<>>, lastSent |-> text,
          seq |-> s, kind |-> "dup", text |-> text, log |-> <<>>]
    ELSE [committed |-> <<>>, pendingInterim |-> <<>>, lastSent |-> ls,
          seq |-> s + 1, kind |-> "emit", text |-> text, log |-> <<"input">>]

flushBufferEmptyClearsSent(c, p, ls, s) ==
    LET text == Trim(c \o <<SP>> \o p) IN
    IF text = <<>>
    THEN [committed |-> <<>>, pendingInterim |-> <<>>, lastSent |-> <<>>,
          seq |-> s, kind |-> "empty", text |-> text, log |-> <<>>]
    ELSE IF ls # <<>> /\ ls = text
    THEN [committed |-> <<>>, pendingInterim |-> <<>>, lastSent |-> text,
          seq |-> s, kind |-> "dup", text |-> text, log |-> <<>>]
    ELSE [committed |-> <<>>, pendingInterim |-> <<>>, lastSent |-> text,
          seq |-> s + 1, kind |-> "emit", text |-> text, log |-> <<"input">>]

flushBuffer(c, p, ls, s) ==
    LET text == Trim(c \o <<SP>> \o p) IN
    IF text = <<>>
    THEN [committed |-> <<>>, pendingInterim |-> <<>>, lastSent |-> ls,
          seq |-> s, kind |-> "empty", text |-> text, log |-> <<>>]
    ELSE IF ls # <<>> /\ ls = text
    THEN [committed |-> <<>>, pendingInterim |-> <<>>, lastSent |-> text,
          seq |-> s, kind |-> "dup", text |-> text, log |-> <<>>]
    ELSE [committed |-> <<>>, pendingInterim |-> <<>>, lastSent |-> text,
          seq |-> s + 1, kind |-> "emit", text |-> text, log |-> <<"input">>]

\* the trace record every handler leaves behind: the branch flushBuffer
\* took, its composed text and the addLog calls made, the refs before the
\* handler ran, and for a recognition event its finalTranscript and its
\* interimTranscript.  onend fills in restarted (start() was called)
\* and afterFatal (the object had raised an error other than 'no-speech');
\* onerror fills in preStream and preListening for a 'no-speech' error.
Trace(op, f, ev) ==
    [op |-> op, flush |-> f.kind, text |-> f.text, log |-> f.log,
     restarted |-> FALSE, afterFatal |-> FALSE,
     preStream |-> FALSE, preListening |-> FALSE,
     prevSent |-> lastSent, prevSeq |-> seq, prevCalls |-> Len(calls),
     preCommitted |-> committed, preInterim |-> pendingInterim,
     preChunk |-> chunkTimer,
     resumed |-> resumed,
     finalT |-> BuildTranscript(ev, TRUE),
     interimT |-> BuildTranscript(ev, FALSE)]

\* apply the result of flushBuffer to the refs; onFinalTranscript(text, seq)
\* is recorded in calls
ApplyFlush(f) ==
    /\ committed' = f.committed
    /\ pendingInterim' = f.pendingInterim
    /\ lastSent' = f.lastSent
    /\ seq' = f.seq
    /\ calls' = IF f.kind = "emit" THEN Append(calls, f.seq) ELSE calls
    /\ resumed' = IF f.kind \in {"dup", "emit"} THEN FALSE ELSE resumed

BufferFresh ==
    /\ committed = <<>> /\ pendingInterim = <<>> /\ lastSent = <<>>
    /\ seq = 0 /\ calls = <<>>

(***************************************************************************)
(* recognition.start() / recognition.stop() on one object                  *)
(***************************************************************************)
\* start() throws InvalidStateError (caught by every caller) unless idle
RecStart(st) == IF st = "idle" THEN "starting" ELSE st

\* stop() on an object that is not started does nothing
RecStop(st) ==
    IF st = "starting" THEN "aborting"
    ELSE IF st = "running" THEN "stopping" ELSE st


\* Stale objects differ only in their status, so they are kept in a fixed
\* order (idle ones last); slot 1 stays recognitionRef.current.
Rank(st) ==
    CASE st = "idle" -> 0 [] st = "starting" -> 1 [] st = "running" -> 2
      [] st = "stopping" -> 3 [] st = "failed" -> 4 [] st = "fatal" -> 5
      [] st = "aborting" -> 6

RECURSIVE InsertStatus(_, _)
InsertStatus(st, sorted) ==
    IF sorted = <<>> THEN <<st>>
    ELSE IF Rank(st) >= Rank(Head(sorted)) THEN <<st>> \o sorted
    ELSE <<Head(sorted)>> \o InsertStatus(st, Tail(sorted))

RECURSIVE SortStatuses(_)
SortStatuses(sts) ==
    IF sts = <<>> THEN <<>>
    ELSE InsertStatus(Head(sts), SortStatuses(Tail(sts)))

Canon(rs) == <<Head(rs)>> \o SortStatuses(Tail(rs))

(***************************************************************************)
(* The end-to-end scenario of the segment buffer: interim "hel", interim   *)
(* "hello there", final "hello there.", final "hello there."               *)
(***************************************************************************)
Scenario ==
    << <<[transcript |-> Hel, isFinal |-> FALSE]>>,
       <<[transcript |-> HelloThere, isFinal |-> FALSE]>>,
       <<[transcript |-> HelloThereDot, isFinal |-> TRUE]>>,
       <<[transcript |-> HelloThereDot, isFinal |-> TRUE]>> >>

\* scn = k: the recognition events handled since the buffer was fresh are
\* exactly the first k events of Scenario, and no other handler touched the
\* buffer in between
ScnAfterResult(ev) ==
    IF scn \in 1..3 /\ ev = Scenario[scn + 1] THEN scn + 1
    ELSE IF BufferFresh /\ ev = Scenario[1] THEN 1
    ELSE 0

(***************************************************************************)
(* Handlers of useSpeechRecognition                                        *)
(***************************************************************************)
\* one more handler other than onresult has called flushBuffer; emitted:
\* the flush called onFinalTranscript
NoBurst == [flushes |-> 0, emits |-> 0]

NextBurst(b, emitted) ==
    [flushes |-> IF b.flushes < 2 THEN b.flushes + 1 ELSE b.flushes,
     emits |-> IF emitted THEN b.emits + 1 ELSE b.emits]

\* recognition.onstart (lines 120-126)
OnStart(r) ==
    /\ recs[r] = "starting"
    /\ recs' = Canon([recs EXCEPT ![r] = "running"])
    /\ isListening' = TRUE
    /\ streamingInterval' = TRUE
    /\ last' = Trace("start", NoFlush, <<>>)
    /\ stopped' = FALSE
    /\ UNCHANGED <<isListeningRef, committed, pendingInterim, lastSent, seq,
                   chunkTimer, calls, scn, resumed, orphanTimers, burst>>

\* the test of line 129, and a variant that restarts whatever the ref says
EndRestartsAlways(ref) == TRUE

EndRestarts(ref) == ref

\* recognition.onend (lines 128-142)
OnEnd(r) ==
    /\ recs[r] \in {"running", "aborting", "stopping", "failed", "fatal"}
    /\ seq < MaxSeq
    /\ IF EndRestarts(isListeningRef)
       THEN /\ recs' = Canon([recs EXCEPT ![r] = RecStart("idle")])
            /\ last' = [Trace("end", NoFlush, <<>>)
                           EXCEPT !.restarted = TRUE,
                                  !.afterFatal = (recs[r] = "fatal")]
            /\ UNCHANGED <<committed, pendingInterim, lastSent, seq, calls,
                           chunkTimer, streamingInterval, scn, resumed, burst>>
       ELSE LET f == flushBuffer(committed, pendingInterim, lastSent, seq) IN
            /\ recs' = Canon([recs EXCEPT ![r] = "idle"])
            /\ ApplyFlush(f)
            /\ chunkTimer' = clearChunkTimer(chunkTimer)
            /\ streamingInterval' = FALSE
            /\ last' = [Trace("end", f, <<>>)
                           EXCEPT !.afterFatal = (recs[r] = "fatal")]
            /\ scn' = 0
            /\ burst' = NextBurst(burst, calls' # calls)
    /\ UNCHANGED <<isListening, isListeningRef, stopped, orphanTimers>>

ErrorKinds == {"no-speech", "other"}

\* recognition.onerror (lines 144-160); the recognizer ends after an error
OnError(r, e) ==
    /\ recs[r] \in {"starting", "running", "stopping"}
    /\ seq < MaxSeq
    /\ LET f == flushBuffer(committed, pendingInterim, lastSent, seq) IN
       /\ ApplyFlush(f)
       /\ last' = IF e # "no-speech"
                  THEN [Trace("error", f, <<>>) EXCEPT !.log = @ \o <<"error">>]
                  ELSE [Trace("no-speech", f, <<>>)
                           EXCEPT !.preStream = streamingInterval,
                                  !.preListening = isListening]
    /\ chunkTimer' = clearChunkTimer(chunkTimer)
    /\ streamingInterval' = FALSE
    /\ recs' = Canon([recs EXCEPT ![r] = IF e # "no-speech" THEN "fatal"
                                         ELSE "failed"])
    /\ isListening' = IF e # "no-speech" THEN FALSE ELSE isListening
    /\ scn' = 0
    /\ burst' = NextBurst(burst, calls' # calls)
    /\ UNCHANGED <<isListeningRef, stopped, orphanTimers>>

\* the test of line 177 and the assignments of lines 178 and 179
HasFinal(finalTranscript) == Len(Trim(finalTranscript)) > 0

\* (a variant that does not append the final text)
CommitFinalDropped(c, finalTranscript) == c

CommitFinal(c, finalTranscript) == Trim(c \o <<SP>> \o finalTranscript)

InterimKept(p) == p

InterimAfterFinal(p) == <<>>

\* the assignment of line 186, and a variant that appends to the fragment
\* already held
SetInterimAppends(p, interimTranscript) == Trim(p \o <<SP>> \o interimTranscript)

SetInterim(p, interimTranscript) == Trim(interimTranscript)

\* lines 195-198: clearChunkTimer, then a new timeout is stored in
\* chunkTimerRef; ct is whether the ref held a pending timeout, orphans the
\* number of pending timeouts the ref does not refer to.  The variant leaves
\* out clearChunkTimer.
RestartChunkTimerNoClear(ct, orphans) ==
    [chunkTimer |-> TRUE, orphans |-> IF ct THEN orphans + 1 ELSE orphans]

RestartChunkTimer(ct, orphans) == [chunkTimer |-> TRUE, orphans |-> orphans]

\* recognition.onresult (lines 162-203), fired by any started object; the
\* handler does not refer to the object
OnResult(ev) ==
    /\ {r \in RecIds : recs[r] \in {"running", "stopping"}} # {}
    /\ seq < MaxSeq
    /\ LET finalTranscript == BuildTranscript(ev, TRUE)
           interimTranscript == BuildTranscript(ev, FALSE)
       IN
       IF HasFinal(finalTranscript)
       THEN LET c == CommitFinal(committed, finalTranscript)
                f == flushBuffer(c, InterimAfterFinal(pendingInterim), lastSent, seq)
            IN /\ ApplyFlush(f)
               /\ chunkTimer' = clearChunkTimer(chunkTimer)
               /\ last' = Trace("result", f, ev)
               /\ UNCHANGED orphanTimers
       ELSE IF Len(Trim(interimTranscript)) > 0
       THEN LET t == RestartChunkTimer(chunkTimer, orphanTimers) IN
            /\ pendingInterim' = SetInterim(pendingInterim, interimTranscript)
            /\ chunkTimer' = t.chunkTimer
            /\ orphanTimers' = t.orphans
            /\ last' = Trace("result", NoFlush, ev)
            /\ UNCHANGED <<committed, lastSent, seq, calls, resumed>>
       ELSE /\ last' = Trace("result", NoFlush, ev)
            /\ UNCHANGED <<committed, pendingInterim, lastSent, seq, calls,
                           chunkTimer, resumed, orphanTimers>>
    /\ scn' = ScnAfterResult(ev)
    /\ burst' = NoBurst
    /\ UNCHANGED <<isListening, isListeningRef, streamingInterval, recs,
                   stopped>>

\* the pause timeout set by onresult expires (lines 196-198)
ChunkTimerFire ==
    /\ chunkTimer
    /\ seq < MaxSeq
    /\ LET f == flushBuffer(committed, pendingInterim, lastSent, seq) IN
       /\ ApplyFlush(f)
       /\ last' = Trace("chunk", f, <<>>)
    /\ chunkTimer' = FALSE   \* the timeout has fired
    /\ scn' = 0
    /\ burst' = NextBurst(burst, calls' # calls)
    /\ UNCHANGED <<isListening, isListeningRef, streamingInterval, recs,
                   stopped, orphanTimers>>

\* one tick of the streaming interval (lines 54-58)
StreamingIntervalFire ==
    /\ streamingInterval
    /\ seq < MaxSeq
    /\ LET f == flushBuffer(committed, pendingInterim, lastSent, seq) IN
       /\ ApplyFlush(f)
       /\ last' = Trace("stream", f, <<>>)
    /\ chunkTimer' = clearChunkTimer(chunkTimer)
    /\ scn' = 0
    /\ burst' = NextBurst(burst, calls' # calls)
    /\ UNCHANGED <<isListening, isListeningRef, streamingInterval, recs,
                   stopped, orphanTimers>>

\* The effects of one render of App.  App creates addLog anew on every
\* render, so the dependency list of the main effect changes on every
\* render: its cleanup (lines 208-216) stops the effect's recognition object
\* and clears both timers, the sync effect (lines 101-106) copies isListening
\* into the ref, and the main effect creates a new recognition object, which
\* becomes recognitionRef.current; the object it replaces is stale from then
\* on.  EffectsRecs is the outcome for the recognition objects.
FreeSlots(rs) == {r \in RecIds \ {Cur} : rs[r] = "idle"}

EffectsReady(rs) == RecStop(rs[Cur]) # "idle" => FreeSlots(rs) # {}

EffectsRecs(rs) ==
    LET st == RecStop(rs[Cur]) IN
    IF st = "idle" THEN rs
    ELSE LET slot == CHOOSE r \in FreeSlots(rs) : \A q \in FreeSlots(rs) : r <= q
         IN Canon([rs EXCEPT ![slot] = st, ![Cur] = "idle"])

\* toggleListening (lines 219-249), the click handler of the button (App,
\* line 233); recognitionRef.current is set at mount.  A click is a discrete
\* event: when it changes isListening the render and its effects run before
\* any other event is handled (createRoot); when it leaves isListening as it
\* was, a render may or may not follow at once.
ToggleListening ==
    /\ seq < MaxSeq
    /\ \E render \in (IF isListening = isListeningRef THEN {TRUE} ELSE BOOLEAN) :
       IF isListeningRef
       THEN LET f == flushBuffer(committed, pendingInterim, lastSent, seq)
                rs == [recs EXCEPT ![Cur] = RecStop(recs[Cur])]
            IN
            /\ isListening' = FALSE
            /\ ApplyFlush(f)
            /\ chunkTimer' = clearChunkTimer(chunkTimer)
            /\ streamingInterval' = FALSE
            /\ render => EffectsReady(rs)
            /\ recs' = IF render THEN EffectsRecs(rs) ELSE rs
            /\ isListeningRef' = IF render THEN FALSE ELSE isListeningRef
            /\ last' = Trace("toggleStop", f, <<>>)
            /\ scn' = 0
            /\ stopped' = IF isListening THEN TRUE ELSE stopped
            /\ burst' = NextBurst(burst, calls' # calls)
            /\ UNCHANGED orphanTimers
       ELSE LET rs == [recs EXCEPT ![Cur] = RecStart(recs[Cur])] IN
            /\ isListening' = TRUE
            /\ render => EffectsReady(rs)
            /\ recs' = IF render THEN EffectsRecs(rs) ELSE rs
            /\ isListeningRef' = IF render THEN TRUE ELSE isListeningRef
            /\ chunkTimer' = IF render THEN clearChunkTimer(chunkTimer)
                                      ELSE chunkTimer
            /\ streamingInterval' = IF render THEN FALSE ELSE streamingInterval
            /\ last' = Trace("toggleStart", NoFlush, <<>>)
            /\ resumed' = TRUE
            /\ stopped' = FALSE
            /\ UNCHANGED <<committed, pendingInterim, lastSent, seq, calls, scn,
                           orphanTimers, burst>>

\* A render of App caused by a recognition event, a timer or a log entry
\* commits and its effects run.
RunEffects ==
    /\ EffectsReady(recs)
    /\ recs' = EffectsRecs(recs)
    /\ chunkTimer' = clearChunkTimer(chunkTimer)
    /\ streamingInterval' = FALSE
    /\ isListeningRef' = isListening
    /\ last' = Trace("effects", NoFlush, <<>>)
    /\ UNCHANGED <<isListening, committed, pendingInterim, lastSent, seq,
                   calls, scn, resumed, stopped, orphanTimers, burst>>

BufInit ==
    /\ isListening = FALSE
    /\ isListeningRef = FALSE
    /\ committed = <<>>
    /\ pendingInterim = <<>>
    /\ lastSent = <<>>
    /\ seq = 0
    /\ chunkTimer = FALSE
    /\ streamingInterval = FALSE
    /\ recs = [r \in RecIds |-> "idle"]
    /\ calls = <<>>
    /\ last = [op |-> "init", flush |-> "none", text |-> <<>>,
               prevSent |-> <<>>, prevSeq |-> 0, prevCalls |-> 0,
               preCommitted |-> <<>>, preInterim |-> <<>>,
               preChunk |-> FALSE,
               resumed |-> FALSE, finalT |-> <<>>, interimT |-> <<>>,
               log |-> <<>>, restarted |-> FALSE, afterFatal |-> FALSE,
               preStream |-> FALSE, preListening |-> FALSE]
    /\ scn = 0
    /\ resumed = FALSE
    /\ stopped = FALSE
    /\ orphanTimers = 0
    /\ burst = NoBurst

BufNext ==
    \/ \E r \in RecIds : OnStart(r)
    \/ \E r \in RecIds : OnEnd(r)
    \/ \E r \in RecIds, e \in ErrorKinds : OnError(r, e)
    \/ \E ev \in Events : OnResult(ev)
    \/ ChunkTimerFire
    \/ StreamingIntervalFire
    \/ ToggleListening
    \/ RunEffects

(***************************************************************************)
(* fetchWithRetry (useSpeechAndTranslation.js lines 15-37)                 *)
(*                                                                         *)
(* One invocation is a record: i is the loop variable, phase the await the *)
(* invocation is suspended at ("fetch", "wait") or how it ended            *)
(* ("returned", "thrown", "undefined" when the loop body never ran).       *)
(* requests counts the fetch calls issued, waits lists the setTimeout      *)
(* delays, failures counts the attempts that ended in the catch block.     *)
(* result is the number of the request whose response was returned, error  *)
(* the index i of the attempt whose error was caught last.  clock is the   *)
(* time in ms the invocation has spent in its setTimeout waits, issuedAt   *)
(* the value of clock at each fetch call.                                  *)
(***************************************************************************)
DefaultRetries == 3
DefaultDelay == 1000

RetriesArgs == 0..MaxRetries
DelayArgs == {1, 500, DefaultDelay}

\* how one attempt ends: response.ok and a JSON body, a non-ok status,
\* fetch rejecting, or response.json() rejecting
Outcomes == {"ok", "status", "throw", "badjson"}

RECURSIVE Pow2(_)
Pow2(n) == IF n = 0 THEN 1 ELSE 2 * Pow2(n - 1)

NoError == -1

\* the call of fetchWithRetry up to its first await
FetchCall(retries, delay) ==
    [retries |-> retries, delay |-> delay, i |-> 0,
     phase |-> IF 0 < retries THEN "fetch" ELSE "undefined",
     requests |-> IF 0 < retries THEN 1 ELSE 0,
     waits |-> <<>>, failures |-> 0, result |-> 0, error |-> NoError,
     logged |-> FALSE, clock |-> 0,
     issuedAt |-> IF 0 < retries THEN <<0>> ELSE <<>>]

\* variants of FetchSettle with one slip each
FetchSettleFlatDelay(c, o) ==
    IF o = "ok"
    THEN [c EXCEPT !.phase = "returned", !.result = c.requests]
    ELSE IF c.i = c.retries - 1
    THEN [c EXCEPT !.phase = "thrown", !.failures = c.failures + 1,
                   !.error = c.i,
                   !.logged = TRUE]
    ELSE [c EXCEPT !.phase = "wait", !.failures = c.failures + 1,
                   !.error = c.i,
                   !.waits = Append(c.waits, c.delay)]

FetchSettleLinearDelay(c, o) ==
    IF o = "ok"
    THEN [c EXCEPT !.phase = "returned", !.result = c.requests]
    ELSE IF c.i = c.retries - 1
    THEN [c EXCEPT !.phase = "thrown", !.failures = c.failures + 1,
                   !.error = c.i,
                   !.logged = TRUE]
    ELSE [c EXCEPT !.phase = "wait", !.failures = c.failures + 1,
                   !.error = c.i,
                   !.waits = Append(c.waits, c.delay * (c.i + 1))]

FetchSettleOffByOne(c, o) ==
    IF o = "ok"
    THEN [c EXCEPT !.phase = "returned", !.result = c.requests]
    ELSE IF c.i = c.retries
    THEN [c EXCEPT !.phase = "thrown", !.failures = c.failures + 1,
                   !.error = c.i,
                   !.logged = TRUE]
    ELSE [c EXCEPT !.phase = "wait", !.failures = c.failures + 1,
                   !.error = c.i,
                   !.waits = Append(c.waits, c.delay * Pow2(c.i))]

\* the attempt in flight settles with outcome o (lines 18-35)
FetchSettle(c, o) ==
    IF o = "ok"
    THEN [c EXCEPT !.phase = "returned", !.result = c.requests]
    ELSE IF c.i = c.retries - 1
    THEN [c EXCEPT !.phase = "thrown", !.failures = c.failures + 1,
                   !.error = c.i,
                   !.logged = TRUE]
    ELSE [c EXCEPT !.phase = "wait", !.failures = c.failures + 1,
                   !.error = c.i,
                   !.waits = Append(c.waits, c.delay * Pow2(c.i))]

\* the backoff timeout fires: next iteration of the loop (lines 16, 34)
FetchResume(c) ==
    LET now == c.clock + c.waits[Len(c.waits)] IN
    IF c.i + 1 < c.retries
    THEN [c EXCEPT !.i = c.i + 1, !.phase = "fetch",
                   !.requests = c.requests + 1,
                   !.clock = now, !.issuedAt = Append(c.issuedAt, now)]
    ELSE [c EXCEPT !.i = c.i + 1, !.phase = "undefined", !.clock = now]

NoCall == FetchCall(0, 0)

RetrySettle(o) ==
    /\ call.phase = "fetch"
    /\ call' = FetchSettle(call, o)

RetryResume ==
    /\ call.phase = "wait"
    /\ call' = FetchResume(call)

(***************************************************************************)
(* translateAndSpeak (useSpeechAndTranslation.js lines 88-155)             *)
(***************************************************************************)
MinChunkLen == 2

\* a log entry: the type given to addLog and the sequence number its text
\* names (NoSeq when it names none)
NoSeq == -1

LogEntry(type, s) == [type |-> type, seq |-> s]

\* a variant of translateAndSpeak without the guard of line 91
translateAndSpeakNoGuard(sourceText, s) ==
    [seq |-> s, text |-> sourceText, state |-> "fetching",
     call |-> FetchCall(DefaultRetries, DefaultDelay), logs |-> <<>>]

\* the call of translateAndSpeak(sourceText, seq) up to its first await;
\* logs lists the addLog calls made on behalf of this invocation
translateAndSpeak(sourceText, s) ==
    IF Len(Trim(sourceText)) < MinChunkLen
    THEN [seq |-> s, text |-> sourceText, state |-> "skipped", call |-> NoCall,
          logs |-> <<LogEntry("info", NoSeq)>>]
    ELSE [seq |-> s, text |-> sourceText, state |-> "fetching",
          call |-> FetchCall(DefaultRetries, DefaultDelay), logs |-> <<>>]

\* App passes translateAndSpeak as onFinalTranscript: a flush that emits
\* calls it with the emitted text and sequence number.  failedBefore notes
\* how many earlier invocations had failed by then.
WireDropsShort ==
    /\ tasks' = IF calls' # calls /\ Len(Trim(lastSent')) >= MinChunkLen
                THEN Append(tasks,
                            translateAndSpeak(lastSent', seq') @@
                            [failedBefore |->
                                Cardinality({k \in 1..Len(tasks) :
                                                tasks[k].state = "failed"})])
                ELSE tasks
    /\ UNCHANGED presented

Wire ==
    /\ tasks' = IF calls' # calls
                THEN Append(tasks,
                            translateAndSpeak(lastSent', seq') @@
                            [failedBefore |->
                                Cardinality({k \in 1..Len(tasks) :
                                                tasks[k].state = "failed"})])
                ELSE tasks
    /\ UNCHANGED presented

\* the response body either holds candidates[0].content.parts[0].text or not
Bodies == {"text", "missing"}

\* what translateAndSpeak does when fetchWithRetry has settled as c: on a
\* return it shows and logs the translation (lines 108-112); on a throw,
\* which fetchWithRetry has logged (line 31), the catch block logs the error
\* with the sequence number (lines 150-154)
TaskAfterNoCatch(t, c) ==
    IF c.phase = "returned"
    THEN [t EXCEPT !.call = c, !.state = "done",
                   !.logs = Append(@, LogEntry("translation-text", t.seq))]
    ELSE IF c.phase = "thrown"
    THEN [t EXCEPT !.call = c, !.state = "raised",
                   !.logs = Append(@, LogEntry("error", NoSeq))]
    ELSE [t EXCEPT !.call = c]

TaskAfter(t, c) ==
    IF c.phase = "returned"
    THEN [t EXCEPT !.call = c, !.state = "done",
                   !.logs = Append(@, LogEntry("translation-text", t.seq))]
    ELSE IF c.phase = "thrown"
    THEN [t EXCEPT !.call = c, !.state = "failed",
                   !.logs = @ \o <<LogEntry("error", NoSeq),
                                   LogEntry("error", t.seq)>>]
    ELSE [t EXCEPT !.call = c]

\* the request of task k settles: fetchWithRetry goes on, and when it
\* returns or throws translateAndSpeak resumes (lines 106-112, 150-154)
TaskSettle(k, o, body) ==
    /\ k \in 1..Len(tasks)
    /\ tasks[k].state = "fetching"
    /\ tasks[k].call.phase = "fetch"
    /\ LET c == FetchSettle(tasks[k].call, o) IN
       /\ tasks' = [tasks EXCEPT ![k] = TaskAfter(tasks[k], c)]
       /\ presented' = IF c.phase = "returned"
                       THEN Append(presented, [seq |-> tasks[k].seq,
                                               text |-> tasks[k].text,
                                               body |-> body])
                       ELSE presented

TaskResume(k) ==
    /\ k \in 1..Len(tasks)
    /\ tasks[k].state = "fetching"
    /\ tasks[k].call.phase = "wait"
    /\ tasks' = [tasks EXCEPT ![k].call = FetchResume(tasks[k].call)]
    /\ UNCHANGED presented

pipeVars == <<tasks, presented>>

PipeIdle == tasks = <<>> /\ presented = <<>>

(***************************************************************************)
(* The playback queue and playNext (lines 39-86).  A queue item is         *)
(* identified by its seq.                                                  *)
(***************************************************************************)
PlaySeqs == 1..MaxPlaySeq

RECURSIVE Insert(_, _)
Insert(x, sorted) ==
    IF sorted = <<>> THEN <<x>>
    ELSE IF x < Head(sorted) THEN <<x>> \o sorted
    ELSE <<Head(sorted)>> \o Insert(x, Tail(sorted))

\* playbackQueueRef.current.sort((a, b) => a.seq - b.seq)
RECURSIVE SortBySeq(_)
SortBySeq(q) ==
    IF q = <<>> THEN <<>>
    ELSE Insert(q[Len(q)], SortBySeq(SubSeq(q, 1, Len(q) - 1)))

\* variants of playNext with one slip each
playNextUnsorted(q, playing) ==
    IF playing \/ Len(q) = 0
    THEN [queue |-> q, isPlaying |-> playing, next |-> 0]
    ELSE [queue |-> Tail(q), isPlaying |-> TRUE, next |-> Head(q)]

playNextNoGuard(q, playing) ==
    IF Len(q) = 0
    THEN [queue |-> q, isPlaying |-> playing, next |-> 0]
    ELSE LET sorted == SortBySeq(q) IN
         [queue |-> Tail(sorted), isPlaying |-> TRUE, next |-> Head(sorted)]

playNextKeepsHead(q, playing) ==
    IF playing \/ Len(q) = 0
    THEN [queue |-> q, isPlaying |-> playing, next |-> 0]
    ELSE LET sorted == SortBySeq(q) IN
         [queue |-> sorted, isPlaying |-> TRUE, next |-> Head(sorted)]

\* playNext as a function of the two refs: the new queue, the new flag and
\* the item for which an Audio element is created (0: none)
playNext(q, playing) ==
    IF playing \/ Len(q) = 0
    THEN [queue |-> q, isPlaying |-> playing, next |-> 0]
    ELSE LET sorted == SortBySeq(q) IN
         [queue |-> Tail(sorted), isPlaying |-> TRUE, next |-> Head(sorted)]

\* run playNext on queue q and record what it did; op names the handler
\* that called it and log the addLog calls of that handler
RunPlayNext(q, op, log) ==
    LET p == playNext(q, isPlaying) IN
    /\ playbackQueue' = p.queue
    /\ isPlaying' = p.isPlaying
    /\ sink' = IF p.next # 0 THEN sink @@ (p.next :> "loading") ELSE sink
    /\ released' = IF p.next # 0 THEN Append(released, p.next) ELSE released
    /\ lastPlay' = [called |-> TRUE, wasPlaying |-> isPlaying, before |-> q,
                    next |-> p.next, op |-> op, item |-> 0, log |-> log]

NoPlay == [called |-> FALSE, wasPlaying |-> FALSE, before |-> <<>>, next |-> 0,
           op |-> "none", item |-> 0, log |-> <<>>]

\* the record left by a handler of the Audio element of item s
AudioEvent(op, s, log) == [NoPlay EXCEPT !.op = op, !.item = s, !.log = log]

Without(f, x) == [y \in DOMAIN f \ {x} |-> f[y]]

\* a translation result is pushed and playNext is called (lines 145-148,
\* the enqueue step of translateAndSpeak)
Enqueue(s) ==
    /\ s \notin enqueued
    /\ Cardinality(enqueued) < MaxEnqueued
    /\ enqueued' = enqueued \cup {s}
    /\ RunPlayNext(Append(playbackQueue, s), "enqueue", <<"translation-audio">>)
    /\ UNCHANGED timeouts

\* audio.oncanplay: play() is called and its promise resolves or rejects
\* (lines 56-61); a rejection is logged and changes nothing else
CanPlay(s, ok) ==
    /\ s \in DOMAIN sink
    /\ sink[s] = "loading"
    /\ sink' = [sink EXCEPT ![s] = IF ok THEN "playing" ELSE "rejected"]
    /\ lastPlay' = IF ok THEN AudioEvent("canplay", s, <<>>)
                   ELSE AudioEvent("rejected", s, <<"error">>)
    /\ UNCHANGED <<playbackQueue, isPlaying, released, enqueued, timeouts>>

\* audio.onerror (lines 63-69)
AudioError(s) ==
    /\ s \in DOMAIN sink
    /\ sink' = Without(sink, s)
    /\ isPlaying' = FALSE
    /\ timeouts' = timeouts + 1
    /\ lastPlay' = AudioEvent("error", s, <<"error">>)
    /\ UNCHANGED <<playbackQueue, released, enqueued>>

\* a variant of audio.onended that does not go on with the queue
AudioEndedNoAdvance(s) ==
    /\ s \in DOMAIN sink
    /\ sink[s] = "playing"
    /\ sink' = Without(sink, s)
    /\ isPlaying' = FALSE
    /\ timeouts' = timeouts
    /\ lastPlay' = AudioEvent("ended", s, <<"translation-audio">>)
    /\ UNCHANGED <<playbackQueue, released, enqueued>>

\* audio.onended (lines 71-85)
AudioEnded(s) ==
    /\ s \in DOMAIN sink
    /\ sink[s] = "playing"
    /\ sink' = Without(sink, s)
    /\ isPlaying' = FALSE
    /\ timeouts' = timeouts + 1
    /\ lastPlay' = AudioEvent("ended", s, <<"translation-audio">>)
    /\ UNCHANGED <<playbackQueue, released, enqueued>>

\* a setTimeout(() => playNext(), ...) callback runs (lines 68, 84)
TimeoutPlayNext ==
    /\ timeouts > 0
    /\ timeouts' = timeouts - 1
    /\ RunPlayNext(playbackQueue, "timeout", <<>>)
    /\ UNCHANGED enqueued

playVars == <<playbackQueue, isPlaying, sink, released, enqueued, timeouts,
              lastPlay>>

PlayIdle ==
    /\ playbackQueue = <<>>
    /\ isPlaying = FALSE
    /\ sink = <<>>
    /\ released = <<>>
    /\ enqueued = {}
    /\ timeouts = 0
    /\ lastPlay = NoPlay

vars == <<bufVars, call, pipeVars, playVars>>

(***************************************************************************)
(* Spec: the hook useSpeechRecognition; onFinalTranscript is recorded      *)
(***************************************************************************)
Init == BufInit /\ call = NoCall /\ PipeIdle /\ PlayIdle

Next == BufNext /\ UNCHANGED <<call, pipeVars, playVars>>

Spec == Init /\ [][Next]_vars

(***************************************************************************)
(* SpecRetry: fetchWithRetry on its own, for every retries and delay       *)
(***************************************************************************)
InitRetry ==
    /\ BufInit /\ PipeIdle /\ PlayIdle
    /\ \E n \in RetriesArgs, d \in DelayArgs : call = FetchCall(n, d)

NextRetry ==
    /\ \/ \E o \in Outcomes : RetrySettle(o)
       \/ RetryResume
    /\ UNCHANGED <<bufVars, pipeVars, playVars>>

SpecRetry == InitRetry /\ [][NextRetry]_vars

(***************************************************************************)
(* SpecPlay: the playback scheduler                                        *)
(***************************************************************************)
NextPlay ==
    /\ \/ \E s \in PlaySeqs : Enqueue(s)
       \/ \E s \in PlaySeqs, ok \in BOOLEAN : CanPlay(s, ok)
       \/ \E s \in PlaySeqs : AudioError(s)
       \/ \E s \in PlaySeqs : AudioEnded(s)
       \/ TimeoutPlayNext
    /\ UNCHANGED <<bufVars, call, pipeVars>>

SpecPlay == Init /\ [][NextPlay]_vars

(***************************************************************************)
(* SpecPlayLive: the playback scheduler when every setTimeout callback     *)
(* eventually runs and every Audio element eventually fires its ended or   *)
(* its error event                                                         *)
(***************************************************************************)
PlayTimeoutStep == TimeoutPlayNext /\ UNCHANGED <<bufVars, call, pipeVars>>

SinkCompletes(s) ==
    (AudioEnded(s) \/ AudioError(s)) /\ UNCHANGED <<bufVars, call, pipeVars>>

SpecPlayLive ==
    /\ SpecPlay
    /\ WF_vars(PlayTimeoutStep)
    /\ \A s \in PlaySeqs : WF_vars(SinkCompletes(s))

(***************************************************************************)
(* SpecPipe: the hooks as App wires them, from the state in which the      *)
(* recognizer has been started (toggleListening, a render, onstart)        *)
(***************************************************************************)
InitPipe ==
    /\ isListening = TRUE
    /\ isListeningRef = TRUE
    /\ committed = <<>>
    /\ pendingInterim = <<>>
    /\ lastSent = <<>>
    /\ seq = 0
    /\ chunkTimer = FALSE
    /\ streamingInterval = TRUE
    /\ recs = [r \in RecIds |-> IF r = 2 THEN "running" ELSE "idle"]
    /\ calls = <<>>
    /\ last = [op |-> "start", flush |-> "none", text |-> <<>>,
               prevSent |-> <<>>, prevSeq |-> 0, prevCalls |-> 0,
               preCommitted |-> <<>>, preInterim |-> <<>>,
               preChunk |-> FALSE,
               resumed |-> FALSE, finalT |-> <<>>, interimT |-> <<>>,
               log |-> <<>>, restarted |-> FALSE, afterFatal |-> FALSE,
               preStream |-> FALSE, preListening |-> FALSE]
    /\ scn = 0
    /\ resumed = FALSE
    /\ stopped = FALSE
    /\ orphanTimers = 0
    /\ burst = NoBurst
    /\ call = NoCall /\ PipeIdle /\ PlayIdle

NextPipe ==
    /\ \/ (\E ev \in FinalEvents : OnResult(ev)) /\ Wire
       \/ \E k \in 1..MaxSeq, o \in Outcomes, b \in Bodies :
             TaskSettle(k, o, b) /\ UNCHANGED bufVars
       \/ \E k \in 1..MaxSeq : TaskResume(k) /\ UNCHANGED bufVars
    /\ UNCHANGED <<call, playVars>>

SpecPipe == InitPipe /\ [][NextPipe]_vars

(***************************************************************************)
(* Properties                                                              *)
(***************************************************************************)
FlushOps == {"end", "error", "no-speech", "result", "chunk", "stream", "toggleStop"}

Flushed == last.flush # "none"

\* C1: the k-th call of onFinalTranscript carries sequence number k: the
\* numbers start at 1, grow by exactly 1 per emission and are never reused,
\* also across a stop and restart of listening.
C1_MonotonicSequencing ==
    /\ Len(calls) = seq
    /\ \A k \in 1..Len(calls) : calls[k] = k
    /\ last.flush = "emit" =>
          /\ seq = last.prevSeq + 1
          /\ Len(calls) = last.prevCalls + 1
          /\ calls[Len(calls)] = seq

\* a second segment is emitted after listening was switched on again
C1_Witness ==
    /\ last.flush = "emit" /\ last.op = "result"
    /\ last.resumed /\ calls = <<1, 2>>

\* C2: a flush whose composed text is non-empty and equal to lastSent emits
\* nothing and does not advance the sequence counter, whatever triggered it.
C2_NoDuplicateEmission ==
    (Flushed /\ last.text # <<>> /\ last.text = last.prevSent) =>
        /\ last.flush = "dup"
        /\ seq = last.prevSeq
        /\ Len(calls) = last.prevCalls

\* the pause timer flushes text equal to the last emitted segment
C2_Witness ==
    /\ last.op = "chunk" /\ last.flush = "dup"
    /\ last.text = last.prevSent /\ last.text # <<>>

\* C3: a flush of an empty buffer emits nothing, leaves the sequence counter
\* and lastSent unchanged, and flushing again changes nothing.
C3_EmptyFlushNoOp ==
    (Flushed /\ last.text = <<>>) =>
        /\ last.flush = "empty"
        /\ seq = last.prevSeq
        /\ Len(calls) = last.prevCalls
        /\ lastSent = last.prevSent
        /\ committed = last.preCommitted
        /\ pendingInterim = last.preInterim
        /\ LET f == flushBuffer(committed, pendingInterim, lastSent, seq) IN
              /\ f.kind = "empty"
              /\ f.seq = seq
              /\ f.lastSent = lastSent
              /\ f.committed = committed
              /\ f.pendingInterim = pendingInterim

\* an empty flush after a segment was emitted
C3_Witness ==
    /\ last.flush = "empty" /\ last.op = "stream"
    /\ seq = 1 /\ lastSent # <<>>

\* C4 as claimed: a final fragment that arrives while an interim fragment
\* is pending is flushed within the same event, and the flushed text is the
\* committed text joined with the pending interim text.
C4_FinalJoinsInterim ==
    (/\ last.op = "result"
     /\ last.finalT # <<>>
     /\ last.preInterim # <<>>) =>
        /\ Flushed
        /\ last.text =
              Trim(CommitFinal(last.preCommitted, last.finalT)
                   \o <<SP>> \o last.preInterim)

\* C4 as amended: a final fragment that is not blank is flushed within the
\* same event, whatever the timers; the flushed text is the committed text
\* with the new final fragment, and the pending interim text is discarded.
C4_FinalFlushesCommitted ==
    (last.op = "result" /\ HasFinal(last.finalT)) =>
        /\ last.flush \in {"dup", "emit"}
        /\ last.text = CommitFinal(last.preCommitted, last.finalT)
        /\ pendingInterim = <<>>
        /\ committed = <<>>
        /\ ~chunkTimer

\* a final fragment arrives while an interim fragment is pending and both
\* timers are armed
C4_Witness ==
    /\ last.op = "result" /\ HasFinal(last.finalT)
    /\ last.preInterim = HelloThere /\ last.preChunk /\ streamingInterval
    /\ last.flush = "emit" /\ last.text = HelloThereDot

\* C10: from a fresh buffer, interim "hel", interim "hello there", final
\* "hello there." emit exactly one segment, {1, "hello there."}, when the
\* final fragment is handled; the same final fragment again emits nothing.
C10_HelloThereScenario ==
    /\ scn \in {1, 2} => (calls = <<>> /\ seq = 0)
    /\ scn \in {3, 4} => (calls = <<1>> /\ seq = 1 /\ lastSent = HelloThereDot)
    /\ (scn \in 1..4 /\ last.op = "result") =>
          /\ last.finalT = BuildTranscript(Scenario[scn], TRUE)
          /\ last.flush = CASE scn \in {1, 2} -> "none"
                            [] scn = 3 -> "emit"
                            [] scn = 4 -> "dup"
          /\ scn \in {3, 4} => last.text = HelloThereDot
          /\ last.prevCalls = (IF scn = 4 THEN 1 ELSE 0)

\* all four events of the scenario have been handled
C10_Witness == scn = 4 /\ last.op = "result" /\ last.finalT = HelloThereDot \o <<SP>>

Min(S) == CHOOSE x \in S : \A y \in S : x <= y

Range(q) == {q[j] : j \in 1..Len(q)}

\* C5: an item released by playNext has the smallest seq among the results
\* pending at that moment; playNext never waits for a missing number.
C5_ReleasesSmallestPending ==
    /\ lastPlay.next # 0 =>
          /\ lastPlay.next \in Range(lastPlay.before)
          /\ lastPlay.next = Min(Range(lastPlay.before))
    /\ (lastPlay.called /\ ~lastPlay.wasPlaying /\ lastPlay.before # <<>>) =>
          lastPlay.next # 0

\* with {3, 5} pending and nothing playing, 3 is released although 1, 2 and
\* 4 were never enqueued
C5_Witness ==
    /\ lastPlay.next = 3
    /\ Range(lastPlay.before) = {3, 5}
    /\ lastPlay.before = <<5, 3>>
    /\ ~lastPlay.wasPlaying
    /\ enqueued \cap {1, 2, 4} = {}

\* C6: at most one item is released to the sink and not yet completed;
\* playNext called while isPlaying releases nothing and leaves the queue
\* as it was.
C6_NoOverlap ==
    /\ Cardinality(DOMAIN sink) <= 1
    /\ (lastPlay.called /\ lastPlay.wasPlaying) =>
          /\ lastPlay.next = 0
          /\ playbackQueue = lastPlay.before
          /\ isPlaying

\* a delayed playNext callback runs while a later item is already playing
C6_Witness ==
    /\ lastPlay.called /\ lastPlay.wasPlaying
    /\ lastPlay.before # <<>>
    /\ Len(released) = 2
    /\ Cardinality(DOMAIN sink) = 1

\* C7: translations are presented in increasing sequence order whatever
\* the order in which the requests complete.
C7_PresentedInSequenceOrder ==
    \A a, b \in 1..Len(presented) :
        a < b => presented[a].seq < presented[b].seq

Increasing(w) == \A j \in 1..(Len(w) - 1) : w[j] < w[j + 1]

\* C8: when the first k < n attempts fail and attempt k+1 succeeds,
\* fetchWithRetry returns the response of attempt k+1 after exactly k+1
\* requests and k waits, each wait longer than the one before.
C8_RetryThenSuccess ==
    (call.retries >= 1 /\ call.phase = "returned") =>
        /\ call.failures < call.retries
        /\ call.result = call.failures + 1
        /\ call.requests = call.failures + 1
        /\ Len(call.waits) = call.failures
        /\ Increasing(call.waits)

\* two failures, then success, with the default arguments
C8_Witness ==
    /\ call.phase = "returned" /\ call.failures = 2
    /\ call.retries = DefaultRetries /\ call.delay = DefaultDelay
    /\ call.result = 3 /\ call.waits = <<1000, 2000>>

\* C9: when all n attempts fail, fetchWithRetry throws the error of the
\* last attempt after exactly n requests, and neither requests nor waits
\* after the n-th failure.
C9_RetryExhausted ==
    /\ (call.retries >= 1 /\ call.failures = call.retries) =>
          /\ call.phase = "thrown"
          /\ call.error = call.retries - 1
          /\ call.requests = call.retries
          /\ Len(call.waits) = call.retries - 1
          /\ call.logged
    /\ call.phase = "thrown" => call.failures = call.retries
    /\ call.failures <= call.retries
    /\ call.requests <= call.retries

\* three failures with the default arguments
C9_Witness ==
    /\ call.phase = "thrown" /\ call.retries = DefaultRetries
    /\ call.requests = 3 /\ call.waits = <<1000, 2000>>

\* the state of every invocation of translateAndSpeak
C11_TasksContained ==
    /\ Len(tasks) = Len(calls)
    /\ \A k \in 1..Len(tasks) :
          /\ tasks[k].seq = calls[k]
          /\ tasks[k].state \in {"skipped", "fetching", "done", "failed"}
          /\ tasks[k].call.phase = "thrown" =>
                /\ tasks[k].state = "failed"
                /\ \E j \in 1..Len(tasks[k].logs) :
                      tasks[k].logs[j] = LogEntry("error", tasks[k].seq)
          /\ tasks[k].state # "skipped" =>
                /\ tasks[k].call.retries = DefaultRetries
                /\ tasks[k].call.requests >= 1
                /\ tasks[k].call.requests <= DefaultRetries
                /\ tasks[k].state = "failed" =>
                      tasks[k].call.requests = DefaultRetries

\* the step on which an invocation fails for good
C11_FailureStep ==
    (\E k \in 1..Len(tasks) :
        tasks[k].state = "fetching" /\ tasks'[k].call.phase = "thrown") =>
    UNCHANGED <<isListening, isListeningRef, committed, pendingInterim,
                lastSent, seq, calls>>

\* C11: a terminal translation failure is contained.  translateAndSpeak
\* catches it (no invocation ends by raising) and logs it with the sequence
\* number of its segment; the step on which an invocation fails leaves the
\* listening state, the accumulators and the sequence counter as they were;
\* every flushed segment, also after a failure, is submitted, and every
\* submitted segment that passes the length guard gets the full retry budget
\* of its own.
C11_FailureContained == []C11_TasksContained /\ [][C11_FailureStep]_vars

\* the first segment has failed for good and the second, flushed after that
\* failure, used all three attempts of its own and was translated
C11_Witness ==
    /\ Len(tasks) = 2
    /\ tasks[1].state = "failed"
    /\ tasks[2].failedBefore = 1
    /\ tasks[2].state = "done" /\ tasks[2].call.requests = DefaultRetries

\* texts given to translateAndSpeak directly: empty or missing, blank, one
\* letter, one letter between blanks, two letters, a word
GuardTexts == {<<>>, Blank, Tiny, <<SP, "a", SP>>, <<"a", "b">>, Hel}

\* C12: an invocation whose trimmed text has fewer than 2 characters issues
\* no request and presents no translation; one whose trimmed text has 2 or
\* more characters issues at least one request.
C12_MinLengthGuard ==
    /\ \A k \in 1..Len(tasks) :
          IF Len(Trim(tasks[k].text)) < 2
          THEN /\ tasks[k].state = "skipped"
               /\ tasks[k].call.requests = 0
               /\ \A j \in 1..Len(presented) : presented[j].seq # tasks[k].seq
          ELSE tasks[k].call.requests >= 1
    /\ \A t \in GuardTexts :
          translateAndSpeak(t, 0).call.requests =
              (IF Len(Trim(t)) < 2 THEN 0 ELSE 1)

\* a one-letter segment was skipped and the next segment was translated
C12_Witness ==
    /\ Len(tasks) = 2
    /\ tasks[1].text = Tiny /\ tasks[1].state = "skipped"
    /\ tasks[1].call.requests = 0
    /\ tasks[2].text = HelloThereDot /\ tasks[2].state = "done"
    /\ Len(presented) = 1

\* the handler that ran last was the ended or the error handler of an
\* Audio element
SinkCompleted == lastPlay.op \in {"ended", "error"}

C14_PlaybackFailureCompletes ==
    /\ lastPlay.op \in {"error", "rejected"} =>
          /\ lastPlay.log = <<"error">>
          /\ ~isPlaying
          /\ timeouts > 0
          /\ lastPlay.item \notin Range(playbackQueue)
    /\ \A a, b \in 1..Len(released) : a # b => released[a] # released[b]

\* the addLog types of the last handler
Logged == Range(last.log)

\* the flush of the last handler emitted one segment with the next number
EmittedNext ==
    /\ last.flush = "emit"
    /\ seq = last.prevSeq + 1
    /\ calls = Append(SubSeq(calls, 1, last.prevCalls), seq)

\* C15: on a recognizer error other than 'no-speech' the buffer is flushed
\* (text that is neither empty nor a duplicate yields one segment),
\* isListening becomes false and an error is logged; and while listening
\* stays off, the end event of the object that raised the error does not
\* call start() again, whether or not isListeningRef has been updated.
C15_FatalErrorStopsListening ==
    /\ last.op = "error" =>
          /\ Flushed
          /\ (last.text # <<>> /\ last.text # last.prevSent) => EmittedNext
          /\ last.flush # "emit" => (seq = last.prevSeq /\ Len(calls) = last.prevCalls)
          /\ ~isListening
          /\ "error" \in Logged
    /\ (last.op = "end" /\ last.afterFatal /\ ~isListening) => ~last.restarted

\* C16: the handler of a 'no-speech' error leaves everything as it was: the
\* listening state, the calls of onFinalTranscript, the accumulators, the
\* sequence counter, the pause timer and the streaming timer.
C16_NoSpeechIgnored ==
    last.op = "no-speech" =>
        /\ isListening = last.preListening
        /\ Len(calls) = last.prevCalls
        /\ seq = last.prevSeq
        /\ committed = last.preCommitted
        /\ pendingInterim = last.preInterim
        /\ chunkTimer = last.preChunk
        /\ streamingInterval = last.preStream

\* C17: an end event that arrives while listening is on (isListening, and
\* isListeningRef agrees) restarts the object and leaves the buffer alone;
\* an end event that arrives after the user stopped listening, and before
\* listening is started again, does not restart it, flushes the buffer and
\* leaves both timers cleared.
C17_EndOfStream ==
    last.op = "end" =>
        /\ (isListening /\ isListeningRef) =>
              /\ last.restarted
              /\ \E r \in RecIds : recs[r] = "starting"
              /\ ~Flushed
              /\ seq = last.prevSeq /\ Len(calls) = last.prevCalls
              /\ committed = last.preCommitted /\ pendingInterim = last.preInterim
        /\ stopped =>
              /\ ~last.restarted
              /\ Flushed
              /\ committed = <<>> /\ pendingInterim = <<>>
              /\ ~streamingInterval /\ ~chunkTimer

\* text that arrived after the user stopped listening is emitted as the
\* second segment by the end event, and the object is not restarted
C17_Witness ==
    /\ last.op = "end" /\ stopped /\ ~last.restarted
    /\ last.flush = "emit" /\ last.preInterim = Hel
    /\ calls = <<1, 2>>
    /\ \A r \in RecIds : recs[r] = "idle"

\* C18: toggleListening, when it stops, flushes the buffer (text that is
\* neither empty nor a duplicate yields exactly one segment with the next
\* sequence number); from then on, until listening is started again, the
\* pause timer and the streaming timer are cancelled, whatever recognition
\* events arrive.
C18_StopDrainsAndCancels ==
    /\ last.op = "toggleStop" =>
          /\ Flushed
          /\ (last.text # <<>> /\ last.text # last.prevSent) => EmittedNext
          /\ last.flush # "emit" => (seq = last.prevSeq /\ Len(calls) = last.prevCalls)
    /\ stopped => (~chunkTimer /\ ~streamingInterval)

\* C19: a translation is presented to the user only by the playback
\* scheduler: every translation presented was released by playNext.
C19_OnlySchedulerWritesSink ==
    \A j \in 1..Len(presented) : presented[j].seq \in Range(released)

\* C20: whatever drops content logs it: a flush that suppresses a duplicate,
\* a final fragment that discards the pending interim text, an invocation of
\* translateAndSpeak that skips a short segment or fails for good, and a
\* playback that fails each come with an addLog call.
C20_NoSilentLoss ==
    /\ last.flush = "dup" => last.log # <<>>
    /\ (last.op = "result" /\ HasFinal(last.finalT) /\ last.preInterim # <<>>) =>
          last.log # <<>>
    /\ \A k \in 1..Len(tasks) :
          tasks[k].state \in {"skipped", "failed"} => tasks[k].logs # <<>>
    /\ lastPlay.op \in {"error", "rejected"} => lastPlay.log # <<>>

\* C21: the wait after the failed attempt with index i is delay * 2^i (1000
\* and 2000 ms with the defaults); attempt i+1 is issued only when that wait
\* has elapsed, and the attempts of one call are issued one after another:
\* no attempt is in flight during a wait and at most one at any time.
C21_ExponentialBackoff ==
    /\ \A j \in 1..Len(call.waits) : call.waits[j] = call.delay * Pow2(j - 1)
    /\ (call.retries = DefaultRetries /\ call.delay = DefaultDelay) =>
          call.waits = SubSeq(<<1000, 2000>>, 1, Len(call.waits))
    /\ Len(call.issuedAt) = call.requests
    /\ \A j \in 1..(Len(call.issuedAt) - 1) :
          call.issuedAt[j + 1] >= call.issuedAt[j] + call.waits[j]
    /\ call.phase = "fetch" =>
          (call.requests = call.failures + 1 /\ Len(call.waits) = call.failures)
    /\ call.phase = "wait" =>
          (call.requests = call.failures /\ Len(call.waits) = call.failures)
    /\ call.requests <= call.failures + 1

\* the fourth attempt is in flight after waits of 500, 1000 and 2000 ms
C21_Witness ==
    /\ call.phase = "fetch" /\ call.i = 3 /\ call.delay = 500
    /\ call.waits = <<500, 1000, 2000>>
    /\ call.issuedAt = <<0, 500, 1500, 3500>>

\* C22: an invocation of fetchWithRetry never completes normally without a
\* response, whatever the number of attempts: it is suspended, or it
\* returned the response of one of its requests, or it threw.
C22_ReturnsOrFails ==
    /\ call.phase \in {"fetch", "wait", "returned", "thrown"}
    /\ call.phase = "returned" => call.result \in 1..call.requests

\* the last handler was recognition.onresult for an event that carries
\* interim text and no final text (the branch of lines 185-198)
InterimEvent ==
    /\ last.op = "result"
    /\ ~HasFinal(last.finalT)
    /\ Len(Trim(last.interimT)) > 0

C23_TimerState ==
    /\ orphanTimers = 0
    /\ InterimEvent => chunkTimer /\ ~Flushed
    /\ Flushed => ~chunkTimer
    /\ last.op = "chunk" =>
          /\ last.preChunk
          /\ Flushed
          /\ last.text = Trim(last.preCommitted \o <<SP>> \o last.preInterim)
          /\ committed = <<>> /\ pendingInterim = <<>>

C23_TimerArmed == (~chunkTimer /\ chunkTimer') => InterimEvent'

\* C23: every interim event restarts the pause timer: no pause timeout other
\* than the one chunkTimerRef refers to is ever pending, the timer is armed
\* only by an interim event and is cancelled by every flush, so the timeout
\* that expires is the one set by the most recent interim event with no
\* flush since; its expiry flushes the accumulators as they are then.  (The
\* length of the period is not modelled.)
C23_PauseTimer == []C23_TimerState /\ [][C23_TimerArmed]_vars

C23_Witness ==
    /\ last.op = "chunk" /\ last.flush = "emit"
    /\ last.preInterim = Hel /\ last.text = Hel
    /\ ~chunkTimer /\ orphanTimers = 0

\* C24: while listening is on and a started recognition object is running,
\* the streaming interval is armed, so interim text held in the buffer is
\* flushed by its next tick at the latest; a 'no-speech' error, which leaves
\* listening on, does not leave the interval disarmed.
C24_StreamingArmed ==
    /\ (isListening /\ isListeningRef /\ pendingInterim # <<>>
        /\ \E r \in RecIds : recs[r] = "running") => streamingInterval
    /\ (last.op = "no-speech" /\ last.preListening /\ last.preStream) =>
          streamingInterval

\* the interim texts a single recognition event can leave in the buffer
InterimTexts == {Trim(BuildTranscript(ev, FALSE)) : ev \in Events}

C26_FinalClearsInterim ==
    (last.op = "result" /\ HasFinal(last.finalT)) =>
        /\ last.text = Trim(last.finalT)
        /\ last.flush = (IF last.text = last.prevSent THEN "dup" ELSE "emit")
        /\ last.flush = "emit" => EmittedNext
        /\ lastSent = Trim(last.finalT)
        /\ pendingInterim = <<>> /\ committed = <<>>

\* an event with a final and an interim result arrives while another interim
\* text is held
C26_Witness ==
    /\ last.op = "result" /\ HasFinal(last.finalT)
    /\ Len(Trim(last.interimT)) > 0
    /\ last.preInterim = HelloThere
    /\ last.flush = "emit" /\ lastSent = HelloThereDot
    /\ pendingInterim = <<>>

\* C27: of the handlers other than onresult that call flushBuffer with no
\* recognition event between them (pause timeout, streaming interval, stop,
\* end of stream, error), only the first can emit: together they call
\* onFinalTranscript at most once, the first leaves both accumulators empty,
\* and every later one takes the empty branch and changes neither the
\* counter nor the calls made.
C27_BackToBackFlushes ==
    /\ burst.emits <= 1
    /\ burst.flushes >= 1 => committed = <<>> /\ pendingInterim = <<>>
    /\ (burst.flushes = 2 /\ Flushed /\ last.op # "result") =>
          /\ last.flush = "empty"
          /\ seq = last.prevSeq
          /\ Len(calls) = last.prevCalls
          /\ lastSent = last.prevSent

\* the pause timeout or the streaming interval emitted the interim text
\* held, and the stop that follows finds the buffer empty
C27_Witness ==
    /\ burst = [flushes |-> 2, emits |-> 1]
    /\ last.op = "toggleStop" /\ last.flush = "empty"
    /\ seq = 1 /\ lastSent = Hel

\* C28: a flush that suppresses a duplicate leaves committed and
\* pendingInterim empty and lastSent as it was, makes no call and does not
\* touch the counter; the flush that follows it with no recognition event
\* in between finds nothing to send, so the suppressed text is in no later
\* segment.
C28_DuplicateResets ==
    /\ last.flush = "dup" =>
          /\ last.text = last.prevSent
          /\ committed = <<>> /\ pendingInterim = <<>>
          /\ lastSent = last.prevSent
          /\ seq = last.prevSeq
          /\ Len(calls) = last.prevCalls
          /\ "input" \notin Logged
    /\ (Flushed /\ last.preCommitted = <<>> /\ last.preInterim = <<>>
        /\ ~(last.op = "result" /\ HasFinal(last.finalT))) =>
          last.flush = "empty"

\* the streaming interval finds an interim text equal to the last segment
C28_Witness ==
    /\ last.flush = "dup" /\ last.op = "stream"
    /\ last.preInterim = Hel /\ lastSent = Hel
    /\ committed = <<>> /\ pendingInterim = <<>>

\* C29: every log entry made on behalf of an invocation of translateAndSpeak
\* names the sequence number of the segment that started it, and every
\* translation presented belongs to the invocation of that number, whatever
\* the order in which the requests complete.
C29_ReportsCarrySeq ==
    /\ \A k \in 1..Len(tasks) : \A j \in 1..Len(tasks[k].logs) :
          tasks[k].logs[j].seq = tasks[k].seq
    /\ \A j \in 1..Len(presented) :
          /\ presented[j].seq \in 1..Len(tasks)
          /\ tasks[presented[j].seq].text = presented[j].text

\* C30: every sequence number assigned is handed to translateAndSpeak
\* exactly once, by the flush that assigned it: the k-th invocation carries
\* number k, there are as many invocations as numbers assigned, a flush that
\* emits adds exactly the invocation with its text and the new number, also
\* when the guard then skips it, and a flush that does not emit adds none.
C30_EverySeqHandedOnce ==
    /\ Len(tasks) = seq
    /\ \A k \in 1..Len(tasks) : tasks[k].seq = k /\ calls[k] = k
    /\ last.flush = "emit" =>
          /\ seq = last.prevSeq + 1
          /\ Len(tasks) = last.prevCalls + 1
          /\ tasks[seq].text = last.text
    /\ (Flushed /\ last.flush # "emit") =>
          seq = last.prevSeq /\ Len(tasks) = last.prevCalls

\* the second segment is a one-letter text, which the guard skips
C30_Witness ==
    /\ last.flush = "emit" /\ last.text = Tiny
    /\ seq = 2 /\ Len(tasks) = 2
    /\ tasks[2].seq = 2 /\ tasks[2].state = "skipped"

\* the handlers other than onresult that call flushBuffer
TriggerOps == {"chunk", "stream", "toggleStop", "end", "error", "no-speech"}

\* C31: committed is empty whenever no handler is running: every handler
\* finds it empty and leaves it empty, so a flush by the pause timeout, the
\* streaming interval, a stop, an end of stream or an error composes the
\* interim text held and nothing else, and what it emits is that text.
C31_CommittedEmptyBetweenHandlers ==
    /\ committed = <<>>
    /\ last.preCommitted = <<>>
    /\ (Flushed /\ last.op \in TriggerOps) =>
          /\ last.text = last.preInterim
          /\ last.flush = "emit" => lastSent = last.preInterim
          /\ last.flush = "empty" <=> last.preInterim = <<>>

\* the streaming interval emits the interim text held
C31_Witness ==
    /\ last.op = "stream" /\ last.flush = "emit"
    /\ last.preInterim = HelloThere /\ lastSent = HelloThere
    /\ committed = <<>> /\ last.preCommitted = <<>>

\* C32: when a handler has called flushBuffer, whichever branch it took,
\* committed and pendingInterim are both empty and no pause timeout is
\* pending, neither the one chunkTimerRef referred to nor any other.
C32_FlushLeavesNothing ==
    Flushed =>
        /\ last.flush \in {"empty", "dup", "emit"}
        /\ committed = <<>> /\ pendingInterim = <<>>
        /\ ~chunkTimer /\ orphanTimers = 0

\* the streaming interval flushes while the pause timeout is pending
C32_Witness ==
    /\ last.op = "stream" /\ last.preChunk /\ last.preInterim = Hel
    /\ last.flush \in {"dup", "emit"}
    /\ committed = <<>> /\ pendingInterim = <<>> /\ ~chunkTimer

\* lastSent is the text of the segment numbered seq (empty when none has
\* been emitted), and the handler that emitted it had a text that was not
\* empty and differed from the text of the segment before
C33_SegmentState ==
    /\ seq = 0 <=> lastSent = <<>>
    /\ last.flush = "emit" =>
          /\ last.text # <<>>
          /\ Trim(last.text) = last.text
          /\ last.text # last.prevSent
          /\ lastSent = last.text
          /\ seq = last.prevSeq + 1

C33_SegmentStep ==
    /\ seq' # seq => last'.flush = "emit" /\ last'.prevSent = lastSent
    /\ lastSent' # lastSent => seq' = seq + 1

\* C33: no segment is emitted with an empty text, and the text of segment
\* k+1 differs from the text of segment k: lastSent always holds the text of
\* the latest segment, through errors, ends of stream, stops and restarts,
\* and a flush emits only a text that is not empty and differs from it.
C33_NoEmptyNoRepeat == []C33_SegmentState /\ [][C33_SegmentStep]_vars

\* the second segment is emitted after listening was stopped and started
\* again, with a text other than the first segment's
C33_Witness ==
    /\ last.flush = "emit" /\ last.resumed
    /\ last.prevSeq = 1 /\ last.prevSent = Hel /\ lastSent = HelloThere
    /\ seq = 2

\* every handler that does not emit leaves lastSent as it found it; the
\* first text flushed after listening was started again is suppressed when
\* it equals lastSent
C34_SentState ==
    /\ last.flush # "emit" => lastSent = last.prevSent
    /\ (last.resumed /\ Flushed /\ last.text # <<>>
        /\ last.text = last.prevSent) =>
          /\ last.flush = "dup"
          /\ seq = last.prevSeq
          /\ Len(calls) = last.prevCalls

C34_SentStep ==
    lastSent' # lastSent => last'.flush = "emit" /\ lastSent' = last'.text

\* C34: lastSent changes only in a handler whose flush emits a segment, and
\* then to the text of that segment; an empty flush, a duplicate flush, an
\* error, an end of stream, a stop and a start of listening leave it as it
\* was, so the first text after a restart is suppressed when it equals the
\* last segment emitted before the stop.
C34_LastSentOnlyByEmit == []C34_SentState /\ [][C34_SentStep]_vars

\* listening was stopped and started again, and the first final fragment
\* after that repeats the segment emitted before the stop
C34_Witness ==
    /\ last.resumed /\ last.op = "result" /\ last.flush = "dup"
    /\ last.text = HelloThereDot /\ lastSent = HelloThereDot
    /\ seq = 1 /\ isListening

\* C35: playNext neither loses nor duplicates a result: no result is in the
\* queue twice or released twice, none is both in the queue and released,
\* and the results enqueued so far are exactly those in the queue together
\* with those released.
C35_NoLossNoDuplication ==
    /\ Cardinality(Range(released)) = Len(released)
    /\ Cardinality(Range(playbackQueue)) = Len(playbackQueue)
    /\ Range(playbackQueue) \cap Range(released) = {}
    /\ Range(playbackQueue) \cup Range(released) = enqueued
    /\ DOMAIN sink \subseteq Range(released)
    /\ lastPlay.next # 0 =>
          /\ lastPlay.next \in Range(lastPlay.before)
          /\ lastPlay.next \notin Range(playbackQueue)
          /\ released[Len(released)] = lastPlay.next
          /\ Range(playbackQueue) = Range(lastPlay.before) \ {lastPlay.next}

\* results 2 and 1 have been released in that order and result 3 waits
C35_Witness ==
    /\ enqueued = {1, 2, 3}
    /\ released = <<2, 1>> /\ playbackQueue = <<3>>
    /\ lastPlay.next = 1

TypeOK ==
    /\ isListening \in BOOLEAN /\ isListeningRef \in BOOLEAN
    /\ seq \in 0..MaxSeq
    /\ recs \in [RecIds -> RecStatus]
    /\ scn \in 0..4
    /\ isPlaying \in BOOLEAN
    /\ timeouts \in Nat

\* InitPipe is a state of Spec: TLC reaches a state of Spec that violates
\* this predicate
PipeStartNotReached ==
    ~ ( /\ isListening /\ isListeningRef /\ streamingInterval /\ ~chunkTimer
        /\ recs = [r \in RecIds |-> IF r = 2 THEN "running" ELSE "idle"]
        /\ BufferFresh /\ last.op = "start" /\ scn = 0 )

====
